---- MODULE Spec2Model ----
(***************************************************************************)
(* A model of the LZ4 plugin of Squash (plugins/lz4/squash-lz4.c): the     *)
(* options object with its "hc" flag, the option parser, the size bound,   *)
(* the buffer-to-buffer compress / decompress entry points and the codec   *)
(* registration.  C integers keep their width: size_t values are held as   *)
(* [hi, lo] pairs (value = hi * 2^31 + lo), long values as 16-bit limbs.   *)
(***************************************************************************)
EXTENDS Integers, Sequences, FiniteSets, TLC

VARIABLES build, heap, level, funcs, proc, pending, call

vars == <<build, heap, level, funcs, proc, pending, call>>

(***************************************************************************)
(* Bounds of the model.                                                    *)
(***************************************************************************)
MaxOptions == 2
MaxLen == 2
MaxHi == 2
MaxValueLen == 2
MaxNameLen == 3

(***************************************************************************)
(* The builds: the data model fixes the width of long and size_t, NDEBUG   *)
(* removes the assert() calls.                                             *)
(***************************************************************************)
DataModels == {"ILP32", "LP64", "LLP64"}
Builds == [model : DataModels, ndebug : BOOLEAN]

LongBits(b) == IF b.model = "LP64" THEN 64 ELSE 32
SizeBits(b) == IF b.model = "ILP32" THEN 32 ELSE 64

INT_MAX == 2147483647
INT_MIN == (-INT_MAX) - 1

(***************************************************************************)
(* size_t values.  [hi, lo] stands for hi * 2^31 + lo with 0 <= lo < 2^31. *)
(***************************************************************************)
Size(h, l) == [hi |-> h, lo |-> l]

SizeAdd(a, b) ==
  IF a.lo > INT_MAX - b.lo
    THEN Size(a.hi + b.hi + 1, (a.lo - (INT_MAX - b.lo)) - 1)
    ELSE Size(a.hi + b.hi, a.lo + b.lo)

\* 2^31 = 255 * 8421504 + 128
SizeDiv255(a) ==
  LET q == a.hi \div 255
      r == a.hi % 255
  IN SizeAdd(Size(q, r * 8421504),
             Size(0, (a.lo \div 255) + ((r * 128 + (a.lo % 255)) \div 255)))

SizeLE(a, b) == a.hi < b.hi \/ (a.hi = b.hi /\ a.lo <= b.lo)

\* size_t arithmetic wraps at 2^32 on a 32-bit size_t
SizeWrap(b, a) == IF SizeBits(b) = 32 THEN Size(a.hi % 2, a.lo) ELSE a

\* (int) of a size_t: the low 32 bits, read as two's complement
ToInt(a) == IF a.hi % 2 = 0 THEN a.lo ELSE a.lo + INT_MIN

\* (size_t) of a non-negative int
FromInt(i) == Size(0, i)

(***************************************************************************)
(* C strings: sequences of one-character strings (no embedded NUL).        *)
(***************************************************************************)
UpperCase == <<"A","B","C","D","E","F","G","H","I","J","K","L","M",
               "N","O","P","Q","R","S","T","U","V","W","X","Y","Z">>
LowerCase == <<"a","b","c","d","e","f","g","h","i","j","k","l","m",
               "n","o","p","q","r","s","t","u","v","w","x","y","z">>

tolower(c) ==
  IF \E i \in 1..26 : UpperCase[i] = c
    THEN LowerCase[CHOOSE i \in 1..26 : UpperCase[i] = c]
    ELSE c

LowerStr(s) == [i \in 1..Len(s) |-> tolower(s[i])]

\* strcmp (a, b) == 0
strcmp_eq(a, b) == a = b

\* strcasecmp (a, b) == 0
strcasecmp_exact(a, b) == a = b

strcasecmp_eq(a, b) == LowerStr(a) = LowerStr(b)

(***************************************************************************)
(* strtol (value, &endptr, 0)                                              *)
(***************************************************************************)
isspace(c) == c \in {" ", "\t", "\n", "\r", "\f"}

DigitChars == <<"0","1","2","3","4","5","6","7","8","9">>
HexLower == <<"a","b","c","d","e","f">>

\* the value of a digit character, 99 when it is none
DigitVal(c) ==
  IF \E i \in 1..10 : DigitChars[i] = c
    THEN (CHOOSE i \in 1..10 : DigitChars[i] = c) - 1
    ELSE IF \E i \in 1..6 : HexLower[i] = tolower(c)
      THEN (CHOOSE i \in 1..6 : HexLower[i] = tolower(c)) + 9
      ELSE 99

IsDigit(c, base) == DigitVal(c) < base

RECURSIVE SkipSpace(_, _)
SkipSpace(s, i) ==
  IF i <= Len(s) /\ isspace(s[i]) THEN SkipSpace(s, i + 1) ELSE i

RECURSIVE DigitsEnd(_, _, _)
DigitsEnd(s, i, base) ==
  IF i <= Len(s) /\ IsDigit(s[i], base) THEN DigitsEnd(s, i + 1, base) ELSE i

\* The subject sequence of strtol with base 0: [neg, base, first, last], the digits
\* being s[first .. last - 1]; first = last when there is no conversion.
Subject(s) ==
  LET p == SkipSpace(s, 1)
      neg == p <= Len(s) /\ s[p] = "-"
      q == IF p <= Len(s) /\ s[p] \in {"+", "-"} THEN p + 1 ELSE p
      hex == /\ q + 2 <= Len(s)
             /\ s[q] = "0"
             /\ s[q + 1] \in {"x", "X"}
             /\ IsDigit(s[q + 2], 16)
      base == IF hex THEN 16 ELSE IF q <= Len(s) /\ s[q] = "0" THEN 8 ELSE 10
      first == IF hex THEN q + 2 ELSE q
  IN [neg |-> neg, base |-> base, first |-> first,
      last |-> DigitsEnd(s, first, base)]

\* The magnitude of a long: four 16-bit limbs, least significant first, and whether
\* the digits read so far exceed 64 bits.
ZeroMag == [limbs |-> <<0, 0, 0, 0>>, over |-> FALSE]

MulAdd(m, base, d) ==
  LET t1 == m.limbs[1] * base + d
      t2 == m.limbs[2] * base + (t1 \div 65536)
      t3 == m.limbs[3] * base + (t2 \div 65536)
      t4 == m.limbs[4] * base + (t3 \div 65536)
  IN [limbs |-> <<t1 % 65536, t2 % 65536, t3 % 65536, t4 % 65536>>,
      over |-> m.over \/ t4 >= 65536]

RECURSIVE Accumulate(_, _, _, _, _)
Accumulate(s, i, last, base, m) ==
  IF i >= last THEN m
  ELSE Accumulate(s, i + 1, last, base, MulAdd(m, base, DigitVal(s[i])))

\* magnitude > LONG_MAX, magnitude > -LONG_MIN
AboveLongMax(m, bits) ==
  \/ m.over
  \/ IF bits = 64 THEN m.limbs[4] >= 32768
     ELSE m.limbs[4] # 0 \/ m.limbs[3] # 0 \/ m.limbs[2] >= 32768

AboveLongMin(m, bits) ==
  \/ m.over
  \/ IF bits = 64
       THEN \/ m.limbs[4] > 32768
            \/ m.limbs[4] = 32768
               /\ (m.limbs[3] # 0 \/ m.limbs[2] # 0 \/ m.limbs[1] # 0)
       ELSE \/ m.limbs[4] # 0 \/ m.limbs[3] # 0
            \/ m.limbs[2] > 32768
            \/ m.limbs[2] = 32768 /\ m.limbs[1] # 0

LongMaxMag(bits) ==
  IF bits = 64 THEN <<65535, 65535, 65535, 32767>> ELSE <<65535, 32767, 0, 0>>

LongMinMag(bits) ==
  IF bits = 64 THEN <<0, 0, 0, 32768>> ELSE <<0, 32768, 0, 0>>

\* the long strtol returns: [neg, limbs], clamped to LONG_MIN .. LONG_MAX
ClampLong(neg, m, bits) ==
  IF neg
    THEN [neg |-> TRUE,
          limbs |-> IF AboveLongMin(m, bits) THEN LongMinMag(bits) ELSE m.limbs]
    ELSE [neg |-> FALSE,
          limbs |-> IF AboveLongMax(m, bits) THEN LongMaxMag(bits) ELSE m.limbs]

\* (int) of a long: its low 32 bits, read as two's complement
Signed32(l1, l2) ==
  IF l2 >= 32768 THEN (l2 - 65536) * 65536 + l1 ELSE l2 * 65536 + l1

LongToInt(v) ==
  LET s == Signed32(v.limbs[1], v.limbs[2])
  IN IF v.neg THEN (IF s = INT_MIN THEN INT_MIN ELSE -s) ELSE s

\* [value, end]: the long returned and the number of characters before *endptr
strtol(s, bits) ==
  LET sub == Subject(s)
  IN IF sub.first = sub.last
       THEN [value |-> [neg |-> FALSE, limbs |-> ZeroMag.limbs], end |-> 0]
       ELSE [value |-> ClampLong(sub.neg,
                                 Accumulate(s, sub.first, sub.last, sub.base, ZeroMag),
                                 bits),
             end |-> sub.last - 1]

(***************************************************************************)
(* squash_lz4_parse_option: the status returned and the flag afterwards.   *)
(***************************************************************************)
ParseOptionEager(hc, key, value, bits) ==
  IF strcasecmp_eq(key, <<"l","e","v","e","l">>)
    THEN LET r == strtol(value, bits)
             lvl == LongToInt(r.value)
         IN IF r.end = Len(value) /\ (lvl = 1 \/ lvl = 9)
              THEN [status |-> "SQUASH_OK", hc |-> (lvl = 9), level |-> lvl]
              ELSE [status |-> "SQUASH_BAD_VALUE", hc |-> (lvl = 9), level |-> 0]
    ELSE [status |-> "SQUASH_BAD_PARAM", hc |-> hc, level |-> 0]

squash_lz4_parse_option(hc, key, value, bits) ==
  IF strcasecmp_eq(key, <<"l","e","v","e","l">>)
    THEN LET r == strtol(value, bits)
             lvl == LongToInt(r.value)
         IN IF r.end = Len(value) /\ (lvl = 1 \/ lvl = 9)
              THEN [status |-> "SQUASH_OK", hc |-> (lvl = 9), level |-> lvl]
              ELSE [status |-> "SQUASH_BAD_VALUE", hc |-> hc, level |-> 0]
    ELSE [status |-> "SQUASH_BAD_PARAM", hc |-> hc, level |-> 0]

(***************************************************************************)
(* The LZ4 primitives the plugin calls, on short buffers: an input shorter  *)
(* than 13 bytes (MINLENGTH) is stored by both compressors as one run of   *)
(* literals, and a stream shorter than 9 bytes, too short to hold a match, *)
(* is decoded as one run of literals.                                      *)
(***************************************************************************)
RUN_MASK == 15

LZ4_COMPRESSBOUND(b, n) ==
  SizeWrap(b, SizeAdd(SizeAdd(n, SizeDiv255(n)), Size(0, 16)))

RECURSIVE LengthBytes(_)
LengthBytes(r) == IF r >= 255 THEN <<255>> \o LengthBytes(r - 255) ELSE <<r>>

\* the block written for an input in which no match is searched
LastLiterals(src) ==
  IF Len(src) >= RUN_MASK
    THEN <<RUN_MASK * 16>> \o LengthBytes(Len(src) - RUN_MASK) \o src
    ELSE <<Len(src) * 16>> \o src

\* What a compressor does with a negative input size is outside the library's
\* contract: it copies a negative number of bytes (a crash), or refuses (0).
\* LZ4_compress and LZ4_compressHC: the outcomes [crash, ret, out]
LZ4_compress(src, isize) ==
  IF isize < 0
    THEN {[crash |-> TRUE, ret |-> 0, out |-> <<>>],
          [crash |-> FALSE, ret |-> 0, out |-> <<>>]}
    ELSE {[crash |-> FALSE, ret |-> Len(LastLiterals(src)), out |-> LastLiterals(src)]}

\* LZ4_compress_limitedOutput and LZ4_compressHC_limitedOutput.  A negative
\* maxOutputSize is compared as unsigned (no limit) or refused (0).
LZ4_compress_limitedOutput(src, isize, maxOutputSize) ==
  IF isize < 0
    THEN LZ4_compress(src, isize)
    ELSE LET full == [crash |-> FALSE, ret |-> Len(LastLiterals(src)),
                      out |-> LastLiterals(src)]
             none == [crash |-> FALSE, ret |-> 0, out |-> <<>>]
         IN IF maxOutputSize < 0 THEN {full, none}
            ELSE IF Len(LastLiterals(src)) > maxOutputSize THEN {none} ELSE {full}

\* the literal length of a token, with its extension bytes: [length, ip]
RECURSIVE ReadLength(_, _, _, _)
ReadLength(src, ip, iend, length) ==
  IF ip <= iend
    THEN IF src[ip] = 255
           THEN ReadLength(src, ip + 1, iend, length + 255)
           ELSE [length |-> length + src[ip], ip |-> ip + 1]
    ELSE [length |-> length, ip |-> ip]

\* LZ4_decompress_safe on a stream shorter than 9 bytes: [ret, out]
LZ4_decompress_safe(src, inputSize, maxOutputSize) ==
  LET err == [ret |-> -1, out |-> <<>>]
  IN IF inputSize <= 0 \/ maxOutputSize < 0 THEN err
     ELSE LET token == src[1]
              run == IF token \div 16 = RUN_MASK
                       THEN ReadLength(src, 2, inputSize, RUN_MASK)
                       ELSE [length |-> token \div 16, ip |-> 2]
          IN IF run.length > maxOutputSize THEN err
             ELSE IF run.ip + run.length # inputSize + 1 THEN err
             ELSE [ret |-> run.length,
                   out |-> SubSeq(src, run.ip, inputSize)]

(***************************************************************************)
(* The plugin's buffer functions, as functions of their arguments.         *)
(***************************************************************************)
NULL == 0

\* line 134 / 156: options == NULL || !options->hc selects the fast variant
UsesHCAlways(opt, h) == opt # NULL

UsesHC(opt, h) == opt # NULL /\ h[opt].hc

squash_lz4_get_max_compressed_size(b, n) == LZ4_COMPRESSBOUND(b, n)

LZ4_compressHC(src, isize) == LZ4_compress(src, isize)

LZ4_compressHC_limitedOutput(src, isize, maxOutputSize) ==
  LZ4_compress_limitedOutput(src, isize, maxOutputSize)

\* the outcomes of squash_lz4_compress_buffer: [crash, how, status, len, out]
squash_lz4_compress_buffer(hc, src, cap) ==
  { [crash |-> r.crash,
     how |-> "segv",
     status |-> IF r.ret = 0 THEN "SQUASH_BUFFER_FULL" ELSE "SQUASH_OK",
     len |-> FromInt(r.ret),
     out |-> r.out]
    : r \in IF hc
              THEN LZ4_compressHC_limitedOutput(src.head, ToInt(src.len), ToInt(cap))
              ELSE LZ4_compress_limitedOutput(src.head, ToInt(src.len), ToInt(cap)) }

\* the outcomes of squash_lz4_compress_buffer_unsafe; "abort" is the failed
\* assert, "overflow" a write past the end of the output buffer
squash_lz4_compress_buffer_unsafe(b, hc, src, cap) ==
  IF ~b.ndebug /\ ~SizeLE(LZ4_COMPRESSBOUND(b, src.len), cap)
    THEN {[crash |-> TRUE, how |-> "abort", status |-> "none",
           len |-> cap, out |-> <<>>]}
    ELSE { [crash |-> r.crash \/ ~SizeLE(FromInt(r.ret), cap),
            how |-> IF r.crash THEN "segv" ELSE "overflow",
            status |-> IF r.ret = 0 THEN "SQUASH_BUFFER_FULL" ELSE "SQUASH_OK",
            len |-> FromInt(r.ret),
            out |-> r.out]
           : r \in IF hc THEN LZ4_compressHC(src.head, ToInt(src.len))
                         ELSE LZ4_compress(src.head, ToInt(src.len)) }

DecompressFailed(lz4_e) == lz4_e < 0

\* squash_lz4_decompress_buffer: [status, len, out]
squash_lz4_decompress_buffer(src, cap) ==
  LET r == LZ4_decompress_safe(src.head, ToInt(src.len), ToInt(cap))
  IN IF DecompressFailed(r.ret)
       THEN [status |-> "SQUASH_FAILED", len |-> cap, out |-> <<>>]
       ELSE [status |-> "SQUASH_OK", len |-> FromInt(r.ret), out |-> r.out]

(***************************************************************************)
(* squash_plugin_init_codec: the function table it fills.                  *)
(***************************************************************************)
NullFuncs ==
  [create_options |-> "NULL", parse_option |-> "NULL",
   get_max_compressed_size |-> "NULL", decompress_buffer |-> "NULL",
   compress_buffer |-> "NULL", compress_buffer_unsafe |-> "NULL"]

Lz4Funcs ==
  [create_options |-> "squash_lz4_create_options",
   parse_option |-> "squash_lz4_parse_option",
   get_max_compressed_size |-> "squash_lz4_get_max_compressed_size",
   decompress_buffer |-> "squash_lz4_decompress_buffer",
   compress_buffer |-> "squash_lz4_compress_buffer",
   compress_buffer_unsafe |-> "squash_lz4_compress_buffer_unsafe"]

NameMatchesAnyCase(name) == strcasecmp_eq(<<"l","z","4">>, name)

NameMatches(name) == strcmp_eq(<<"l","z","4">>, name)

squash_plugin_init_codec(name, f) ==
  IF NameMatches(name)
    THEN [status |-> "SQUASH_OK", funcs |-> Lz4Funcs]
    ELSE [status |-> "SQUASH_UNABLE_TO_LOAD", funcs |-> f]

(***************************************************************************)
(* The state: the heap of options objects, the host's function table, the  *)
(* process, the call the host is making and the call that last returned.   *)
(***************************************************************************)
OptIds == 1..MaxOptions

FreeOptions == [alloc |-> FALSE, hc |-> FALSE]

NoBuf == [len |-> Size(0, 0), head |-> <<>>]

\* rt, origin, ocap: the call decompresses what a compress call produced from the
\* buffer origin into an output buffer of capacity ocap
Req(op, opt, key, value, buf, cap, name, rt, origin, ocap) ==
  [op |-> op, opt |-> opt, key |-> key, value |-> value, buf |-> buf,
   cap |-> cap, name |-> name, rt |-> rt, origin |-> origin, ocap |-> ocap]

NoReq == Req("none", NULL, <<>>, <<>>, NoBuf, Size(0, 0), <<>>, FALSE, NoBuf, Size(0, 0))

CreateReq == Req("create", NULL, <<>>, <<>>, NoBuf, Size(0, 0), <<>>, FALSE, NoBuf, Size(0, 0))
DestroyReq(o) == Req("destroy", o, <<>>, <<>>, NoBuf, Size(0, 0), <<>>, FALSE, NoBuf, Size(0, 0))
ParseReq(o, k, v) == Req("parse", o, k, v, NoBuf, Size(0, 0), <<>>, FALSE, NoBuf, Size(0, 0))
MaxSizeReq(n) ==
  Req("max_size", NULL, <<>>, <<>>, [len |-> n, head |-> <<>>], Size(0, 0), <<>>,
      FALSE, NoBuf, Size(0, 0))
CompressReq(op, o, b, c) == Req(op, o, <<>>, <<>>, b, c, <<>>, FALSE, NoBuf, Size(0, 0))
DecompressReq(b, c, rt, origin, ocap) ==
  Req("decompress", NULL, <<>>, <<>>, b, c, <<>>, rt, origin, ocap)
InitReq(n) == Req("init", NULL, <<>>, <<>>, NoBuf, Size(0, 0), n, FALSE, NoBuf, Size(0, 0))

Ret(req, status, ret, len, out, variant) ==
  [op |-> req.op, req |-> req, status |-> status, ret |-> ret, len |-> len,
   out |-> out, variant |-> variant]

NoCall == Ret(NoReq, "none", NULL, Size(0, 0), <<>>, "none")

SeqsUpTo(S, n) == UNION {[1..k -> S] : k \in 0..n}

HiRange(b) == IF SizeBits(b) = 32 THEN 0..1 ELSE 0..MaxHi

(***************************************************************************)
(* The operations.  Each one serves the pending call of the host.          *)
(***************************************************************************)
Serving(op) == proc = "running" /\ pending.op = op

\* squash_lz4_create_options -> squash_lz4_options_new: malloc, then
\* squash_lz4_options_init on whatever malloc returned
CreateOptions ==
  /\ Serving("create")
  /\ pending' = NoReq
  /\ \/ \E o \in OptIds :
          /\ ~heap[o].alloc
          /\ \A p \in OptIds : p < o => heap[p].alloc
          /\ heap' = [heap EXCEPT ![o] = [alloc |-> TRUE, hc |-> FALSE]]
          /\ level' = [level EXCEPT ![o] = 0]
          /\ call' = Ret(pending, "SQUASH_OK", o, Size(0, 0), <<>>, "none")
          /\ UNCHANGED <<build, funcs, proc>>
     \/ \* malloc returned NULL: the assert fails, or NULL is written through
        /\ proc' = IF build.ndebug THEN "segv" ELSE "abort"
        /\ call' = Ret(pending, "none", NULL, Size(0, 0), <<>>, "none")
        /\ UNCHANGED <<build, heap, level, funcs>>

\* squash_lz4_options_free
DestroyOptions ==
  /\ Serving("destroy")
  /\ heap[pending.opt].alloc
  /\ heap' = [heap EXCEPT ![pending.opt] = FreeOptions]
  /\ level' = [level EXCEPT ![pending.opt] = 0]
  /\ call' = Ret(pending, "SQUASH_OK", NULL, Size(0, 0), <<>>, "none")
  /\ pending' = NoReq
  /\ UNCHANGED <<build, funcs, proc>>

ParseOption ==
  /\ Serving("parse")
  /\ heap[pending.opt].alloc
  /\ LET r == squash_lz4_parse_option(heap[pending.opt].hc, pending.key,
                                      pending.value, LongBits(build))
     IN /\ heap' = [heap EXCEPT ![pending.opt].hc = r.hc]
        /\ level' = [level EXCEPT ![pending.opt] =
                       IF r.status = "SQUASH_OK" THEN r.level ELSE @]
        /\ call' = Ret(pending, r.status, NULL, Size(0, 0), <<>>, "none")
  /\ pending' = NoReq
  /\ UNCHANGED <<build, funcs, proc>>

MaxCompressedSize ==
  /\ Serving("max_size")
  /\ call' = Ret(pending, "SQUASH_OK", NULL,
                 squash_lz4_get_max_compressed_size(build, pending.buf.len),
                 <<>>, "none")
  /\ pending' = NoReq
  /\ UNCHANGED <<build, heap, level, funcs, proc>>

Returned(r, variant) ==
  /\ proc' = IF r.crash THEN r.how ELSE proc
  /\ call' = Ret(pending, IF r.crash THEN "none" ELSE r.status, NULL,
                 IF r.crash THEN pending.cap ELSE r.len,
                 IF r.crash THEN <<>> ELSE r.out, variant)
  /\ pending' = NoReq
  /\ UNCHANGED <<build, heap, level, funcs>>

Compress ==
  /\ Serving("compress")
  /\ pending.opt # NULL => heap[pending.opt].alloc
  /\ LET hc == UsesHC(pending.opt, heap)
     IN \E r \in squash_lz4_compress_buffer(hc, pending.buf, pending.cap) :
          Returned(r, IF hc THEN "hc" ELSE "fast")

CompressUnsafe ==
  /\ Serving("compress_unsafe")
  /\ pending.opt # NULL => heap[pending.opt].alloc
  /\ LET hc == UsesHC(pending.opt, heap)
     IN \E r \in squash_lz4_compress_buffer_unsafe(build, hc, pending.buf,
                                                   pending.cap) :
          Returned(r, IF hc THEN "hc" ELSE "fast")

Decompress ==
  /\ Serving("decompress")
  /\ LET r == squash_lz4_decompress_buffer(pending.buf, pending.cap)
     IN call' = Ret(pending, r.status, NULL, r.len, r.out, "none")
  /\ pending' = NoReq
  /\ UNCHANGED <<build, heap, level, funcs, proc>>

InitCodec ==
  /\ Serving("init")
  /\ LET r == squash_plugin_init_codec(pending.name, funcs)
     IN /\ funcs' = r.funcs
        /\ call' = Ret(pending, r.status, NULL, Size(0, 0), <<>>, "none")
  /\ pending' = NoReq
  /\ UNCHANGED <<build, heap, level, proc>>

\* The host hands the bytes a successful compress call produced to decompress,
\* with an output buffer of the length of the original input.
HostRoundTrip ==
  /\ proc = "running"
  /\ pending = NoReq
  /\ call.op = "compress"
  /\ call.status = "SQUASH_OK"
  /\ pending' = DecompressReq([len |-> call.len, head |-> call.out],
                              call.req.buf.len, TRUE, call.req.buf, call.req.cap)
  /\ call' = NoCall
  /\ UNCHANGED <<build, heap, level, funcs, proc>>

(***************************************************************************)
(* The calls the host makes.                                               *)
(***************************************************************************)
LevelKey == <<"l","e","v","e","l">>

\* every letter-case spelling of "level"
LevelSpellings ==
  {[i \in 1..5 |-> IF up[i] THEN UpperCase[CHOOSE j \in 1..26 :
                                             LowerCase[j] = LevelKey[i]]
                             ELSE LevelKey[i]] : up \in [1..5 -> BOOLEAN]}

OtherKeys ==
  {<<>>, <<"l","e","v","e">>, <<"l","e","v","e","l","s">>, <<"l","e","v","e","1">>,
   <<"h","c">>, <<"1">>, <<"9">>, <<" ","l","e","v","e","l">>}

Keys == LevelSpellings \cup OtherKeys

ValueChars == {"0", "1", "9", "x", "-"}

LongValues ==
  {<<"0","1","1">>, <<"0","x","9">>, <<"0","X","0","1">>, <<"a","b","c">>,
   <<"+","9">>, <<"\t","1">>, <<"1",".","0">>, <<"5">>, <<" ","9">>, <<"9"," ">>,
   <<"2","1","4","7","4","8","3","6","4","9">>,
   <<"4","2","9","4","9","6","7","2","9","7">>,
   <<"4","2","9","4","9","6","7","3","0","5">>,
   <<"-","4","2","9","4","9","6","7","2","8","7">>,
   <<"0","x","1","0","0","0","0","0","0","0","0","9">>,
   <<"9","2","2","3","3","7","2","0","3","6","8","5","4","7","7","5","8","0","8">>,
   <<"1","8","4","4","6","7","4","4","0","7","3","7","0","9","5","5","1","6","1","7">>}

Values == SeqsUpTo(ValueChars, MaxValueLen) \cup LongValues

DataBytes == {97, 98}

StreamBytes == {0, 16, 32, 97, 240}

Sizes(b) == {Size(h, l) : h \in HiRange(b), l \in 0..MaxLen}

\* the capacities handed in directly: those that are not negative as an int
Caps(b) ==
  {Size(h, l) : h \in {k \in HiRange(b) : k % 2 = 0}, l \in 0..(MaxLen + 2)}

\* a host buffer: its length, and its leading bytes (the only ones a call reads)
Bufs(b) ==
  {[len |-> Size(h, Len(d)), head |-> d] :
     h \in HiRange(b), d \in SeqsUpTo(DataBytes, MaxLen)}

Streams(b) ==
  {[len |-> Size(h, Len(d)), head |-> d] :
     h \in HiRange(b), d \in SeqsUpTo(StreamBytes, MaxLen + 1)}

Allocated(h) == {o \in OptIds : h[o].alloc}

CompressCalls(b, h) ==
  {CompressReq(op, o, src, c) :
     op \in {"compress", "compress_unsafe"}, o \in {NULL} \cup Allocated(h),
     src \in Bufs(b), c \in Caps(b)}
  \cup
  {CompressReq(op, o, src, LZ4_COMPRESSBOUND(b, src.len)) :
     op \in {"compress", "compress_unsafe"}, o \in {NULL} \cup Allocated(h),
     src \in Bufs(b)}

DecompressCalls(b) ==
  {DecompressReq(src, c, FALSE, NoBuf, Size(0, 0)) : src \in Streams(b), c \in Caps(b)}

MaxSizeCalls(b) == {MaxSizeReq(n) : n \in Sizes(b)}

ParseCalls(h) ==
  {ParseReq(o, k, v) : o \in Allocated(h), k \in Keys, v \in Values}

CodecNames ==
  SeqsUpTo({"l", "z", "4", "L", "Z", "h"}, MaxNameLen)
  \cup {<<"l","z","4","h","c">>, <<"l","z","4"," ">>, <<"l","z","4","l","z","4">>}

InitCalls == {InitReq(n) : n \in CodecNames}

\* the calls of a short session
SessionKeys == {LevelKey, <<"L","E","V","E","L">>, <<"h","c">>}

SessionValues ==
  {<<"1">>, <<"9">>, <<"5">>, <<"9","x">>, <<"4","2","9","4","9","6","7","3","0","5">>}

SessionBufs == {NoBuf, [len |-> Size(0, 1), head |-> <<97>>]}

SessionCalls(b, h) ==
  {CreateReq}
  \cup {DestroyReq(o) : o \in Allocated(h)}
  \cup {ParseReq(o, k, v) : o \in Allocated(h), k \in SessionKeys, v \in SessionValues}
  \cup {CompressReq(op, o, src, Size(0, 1)) :
          op \in {"compress", "compress_unsafe"}, o \in {NULL} \cup Allocated(h),
          src \in SessionBufs}
  \cup {CompressReq(op, o, src, LZ4_COMPRESSBOUND(b, src.len)) :
          op \in {"compress", "compress_unsafe"}, o \in {NULL} \cup Allocated(h),
          src \in SessionBufs}
  \cup {DecompressReq([len |-> Size(0, 1), head |-> <<0>>], Size(0, 0), FALSE, NoBuf, Size(0, 0))}
  \cup {MaxSizeReq(Size(0, 1))}
  \cup {InitReq(n) : n \in {<<"l","z","4">>, <<"L","Z","4">>}}

HostCall ==
  /\ proc = "running"
  /\ pending = NoReq
  /\ pending' \in SessionCalls(build, heap)
  /\ call' = NoCall
  /\ UNCHANGED <<build, heap, level, funcs, proc>>

(***************************************************************************)
(* Spec: a session of the host with the plugin, from an empty heap.        *)
(***************************************************************************)
Init ==
  /\ build \in Builds
  /\ heap = [o \in OptIds |-> FreeOptions]
  /\ level = [o \in OptIds |-> 0]
  /\ funcs = NullFuncs
  /\ proc = "running"
  /\ pending = NoReq
  /\ call = NoCall

Next ==
  \/ HostCall
  \/ HostRoundTrip
  \/ CreateOptions
  \/ DestroyOptions
  \/ ParseOption
  \/ MaxCompressedSize
  \/ Compress
  \/ CompressUnsafe
  \/ Decompress
  \/ InitCodec

Spec == Init /\ [][Next]_vars

(***************************************************************************)
(* One options object, in either state, and one call made with it.         *)
(***************************************************************************)
OneOptions(hc, lvl) ==
  /\ heap = [o \in OptIds |-> IF o = 1 THEN [alloc |-> TRUE, hc |-> hc]
                                      ELSE FreeOptions]
  /\ level = [o \in OptIds |-> IF o = 1 THEN lvl ELSE 0]

InitOne(tables) ==
  /\ build \in Builds
  /\ \E s \in {<<FALSE, 0>>, <<FALSE, 1>>, <<TRUE, 9>>} : OneOptions(s[1], s[2])
  /\ funcs \in tables
  /\ proc = "running"
  /\ call = NoCall

\* SpecParse: squash_lz4_parse_option on every key and value
InitParse == InitOne({NullFuncs}) /\ pending \in ParseCalls(heap)

SpecParse == InitParse /\ [][ParseOption]_vars

\* SpecCodec: the buffer functions on every buffer and capacity
InitCodecCalls ==
  /\ InitOne({NullFuncs})
  /\ pending \in CompressCalls(build, heap) \cup DecompressCalls(build)
                   \cup MaxSizeCalls(build)

NextCodec ==
  \/ MaxCompressedSize
  \/ Compress
  \/ CompressUnsafe
  \/ Decompress
  \/ HostRoundTrip

SpecCodec == InitCodecCalls /\ [][NextCodec]_vars

\* SpecRegister: squash_plugin_init_codec on every codec name
InitRegister == InitOne({NullFuncs, Lz4Funcs}) /\ pending \in InitCalls

SpecRegister == InitRegister /\ [][InitCodec]_vars

(***************************************************************************)
(* The option parser.                                                      *)
(***************************************************************************)
RECURSIVE SkipZeros(_, _, _)
SkipZeros(v, i, last) ==
  IF i < last /\ v[i] = "0" THEN SkipZeros(v, i + 1, last) ELSE i

\* The value, read as a whole by strtol's grammar, is a numeral of the number d
\* (0 < d < 64): no minus sign, and after the leading zeros one or two digits
\* that make d in the numeral's base.  This is the number written, whatever the
\* width of long.
Denotes(v, d) ==
  LET sub == Subject(v)
      z == SkipZeros(v, sub.first, sub.last)
      n == sub.last - z
  IN /\ sub.first < sub.last
     /\ sub.last - 1 = Len(v)
     /\ ~sub.neg
     /\ \/ n = 1 /\ DigitVal(v[z]) = d
        \/ n = 2 /\ DigitVal(v[z]) * sub.base + DigitVal(v[z + 1]) = d

ParsedLevel == call.op = "parse" /\ call.req.key \in LevelSpellings

\* C4: with the key "level", Parse succeeds if and only if the whole value parses
\* as an integer that is exactly 1 or 9, and then sets highCompression to
\* (value = 9); every other value, numbers outside the range of an int included,
\* fails with "bad value".
C4_LevelValue ==
  ParsedLevel =>
    LET v == call.req.value
    IN IF Denotes(v, 1) \/ Denotes(v, 9)
         THEN /\ call.status = "SQUASH_OK"
              /\ heap[call.req.opt].hc = Denotes(v, 9)
         ELSE call.status = "SQUASH_BAD_VALUE"

\* C7: a key that is not "level" in some letter case fails with "bad parameter"
\* whatever the value; every letter-case spelling of "level" returns ok or
\* "bad value", never "bad parameter".
C7_KeyRecognition ==
  call.op = "parse" =>
    IF call.req.key \in LevelSpellings
      THEN call.status \in {"SQUASH_OK", "SQUASH_BAD_VALUE"}
      ELSE call.status = "SQUASH_BAD_PARAM"

C7_Witness ==
  \/ /\ call.op = "parse"
     /\ call.req.key = <<"L","e","V","e","L">>
     /\ call.req.value = <<"9">>
     /\ call.status = "SQUASH_OK"
  \/ /\ call.op = "parse"
     /\ call.req.key = <<"l","e","v","e">>
     /\ call.req.value = <<"1">>
     /\ call.status = "SQUASH_BAD_PARAM"

(***************************************************************************)
(* The options object over a session.                                      *)
(***************************************************************************)
Compressed == call.op \in {"compress", "compress_unsafe"}

\* C5: Compress and CompressUnsafe use the high-compression variant if and only
\* if options are supplied and their highCompression flag is true; so a compress
\* call uses the variant named by the most recent successful Parse("level", ...)
\* on its options (9 = high, 1 = fast), and the fast variant if there was none.
C5_VariantSelection ==
  Compressed =>
    LET o == call.req.opt
    IN /\ call.variant = (IF o # NULL /\ heap[o].hc THEN "hc" ELSE "fast")
       /\ call.variant = (IF o # NULL /\ level[o] = 9 THEN "hc" ELSE "fast")

C5_Witness ==
  \E o \in OptIds, p \in OptIds :
    /\ Compressed
    /\ call.req.opt = o
    /\ level[o] = 9
    /\ call.variant = "hc"
    /\ p # o
    /\ level[p] = 1

\* C8: the highCompression flag of an options object changes only in a
\* successful Parse on that same object; a failed Parse, Compress,
\* CompressUnsafe, Decompress, MaxCompressedSize, registration and every call
\* made with another options object leave it as it was.
C8_FlagFrame ==
  [][\A o \in OptIds :
       (heap[o].alloc /\ heap'[o].alloc /\ heap'[o].hc # heap[o].hc)
         => /\ pending.op = "parse"
            /\ pending.opt = o
            /\ call'.status = "SQUASH_OK"]_vars

C8_Witness ==
  \E o \in OptIds, p \in OptIds :
    /\ call.op = "parse"
    /\ call.req.opt = o
    /\ call.status = "SQUASH_BAD_VALUE"
    /\ heap[o].alloc /\ heap[o].hc
    /\ p # o
    /\ heap[p].alloc /\ ~heap[p].hc

\* C10: Create returns a fresh options object whose highCompression flag is
\* false, and when the allocation fails it reports the failure to the host (a
\* null result) instead of initialising the failed allocation.
C10_Create ==
  call.op = "create" =>
    /\ proc = "running"
    /\ call.ret # NULL => (heap[call.ret].alloc /\ ~heap[call.ret].hc)

(***************************************************************************)
(* Registration.                                                           *)
(***************************************************************************)
\* C9: squash_plugin_init_codec returns ok if and only if the codec's name is
\* exactly "lz4", and then fills all six function slots; for every other name
\* it returns "unable to load" and leaves the function table as it was.
C9_Registration ==
  [][pending.op = "init" =>
       IF pending.name = <<"l","z","4">>
         THEN /\ call'.status = "SQUASH_OK"
              /\ funcs' = Lz4Funcs
              /\ \A slot \in DOMAIN funcs' : funcs'[slot] # "NULL"
         ELSE /\ call'.status = "SQUASH_UNABLE_TO_LOAD"
              /\ funcs' = funcs]_vars

C9_Witness ==
  \/ /\ call.op = "init"
     /\ call.req.name = <<"l","z","4">>
     /\ call.status = "SQUASH_OK"
     /\ funcs = Lz4Funcs
  \/ /\ call.op = "init"
     /\ call.req.name = <<"L","Z","4">>
     /\ call.status = "SQUASH_UNABLE_TO_LOAD"
     /\ funcs = NullFuncs

(***************************************************************************)
(* The buffer functions.                                                   *)
(***************************************************************************)
Bound(c) == LZ4_COMPRESSBOUND(build, c.req.buf.len)

\* C1: for every byte sequence B and both option settings, Compress of B into a
\* buffer of capacity MaxCompressedSize(len(B)) returns ok, and Decompress of the
\* bytes it produced, into a buffer of capacity len(B), returns ok with length
\* len(B) and content B.
C1_RoundTrip ==
  /\ (call.op = "compress" /\ call.req.cap = Bound(call))
       => call.status = "SQUASH_OK"
  /\ (call.op = "decompress" /\ call.req.rt
        /\ call.req.ocap = LZ4_COMPRESSBOUND(build, call.req.origin.len))
       => /\ call.status = "SQUASH_OK"
          /\ call.len = call.req.origin.len
          /\ call.out = call.req.origin.head

\* the length of the block that holds all of a buffer of fewer than 2^31 bytes
BlockLength(src) == Size(0, Len(src.head) + 1)

\* C2: Compress returns "buffer full" if the compressed result does not fit in
\* the capacity c it is given; otherwise it returns ok and the capacity slot
\* holds the compressed length, greater than 0 and at most c.  (Stated for the
\* inputs of fewer than 2^31 bytes, whose compressed length the model knows.)
C2_BoundsChecked ==
  (call.op = "compress" /\ call.req.buf.len.hi = 0) =>
    IF SizeLE(BlockLength(call.req.buf), call.req.cap)
      THEN /\ call.status = "SQUASH_OK"
           /\ call.len = BlockLength(call.req.buf)
           /\ call.len # Size(0, 0)
           /\ SizeLE(call.len, call.req.cap)
      ELSE call.status = "SQUASH_BUFFER_FULL"

\* a stream of fewer than nine bytes is well formed when it is one token and the
\* literals the token counts
WellFormed(d) == Len(d) >= 1 /\ d[1] \div 16 < RUN_MASK /\ Len(d) = (d[1] \div 16) + 1

\* C3: Decompress returns "failed", the capacity slot still holding c, if the
\* stream is malformed, truncated or decompresses to more than c bytes;
\* otherwise it returns ok and the slot holds the decompressed length, at most c
\* (0 included).  (Stated for the streams of fewer than 2^31 bytes.)
C3_Decompress ==
  (call.op = "decompress" /\ call.req.buf.len.hi = 0) =>
    LET d == call.req.buf.head
    IN IF WellFormed(d) /\ SizeLE(Size(0, Len(d) - 1), call.req.cap)
         THEN /\ call.status = "SQUASH_OK"
              /\ call.len = Size(0, Len(d) - 1)
              /\ call.out = SubSeq(d, 2, Len(d))
         ELSE /\ call.status = "SQUASH_FAILED"
              /\ call.len = call.req.cap

\* C6: for every n >= 0, every input of length n and both variants, Compress
\* given capacity MaxCompressedSize(n) never returns "buffer full", and
\* CompressUnsafe given a buffer of MaxCompressedSize(n) bytes stays within it
\* and returns ok; the length either reports is at most MaxCompressedSize(n).
C6_BoundSuffices ==
  (Compressed /\ call.req.cap = Bound(call)) =>
    /\ proc = "running"
    /\ call.status = "SQUASH_OK"
    /\ SizeLE(call.len, Bound(call))

====
